---- MODULE Spec2Model ----
(***************************************************************************)
(* Model of the task-tracking application: the Task entity                 *)
(* (shared/entities/Task.ts), the "tasks" table created by                 *)
(* src/server/db/migrate.ts, the REST handlers that remultExpress          *)
(* generates for the entity (server/api/remult.ts) and the client wrapper  *)
(* src/client/lib/api.ts.                                                  *)
(*                                                                         *)
(* Text values (title, description) are sequences of characters.  An       *)
(* optional value is a set with at most one element: {} is "absent" (a key *)
(* that JSON.stringify dropped, or SQL NULL for a stored description),     *)
(* {v} is "present with value v".                                          *)
(***************************************************************************)
EXTENDS Integers, Sequences, FiniteSets, Bags, TLC

\* ---------------------------------------------------------------- bounds
\* Longest title a request carries.
MaxTitleLen == 2
\* Number of ids the generator hands out in one run.
MaxCreates == 2
\* Largest clock reading.
MaxClock == 1

\* Number of update and delete requests in flight at once.
MaxInflight == 2

\* Number of times a script is run.
MaxRuns == 2

\* ------------------------------------------------------------ input sets
\* Whitespace of length n.
RECURSIVE Spaces(_)
Spaces(n) == IF n = 0 THEN << >> ELSE <<" ">> \o Spaces(n - 1)

\* The titles a request carries: a text, possibly the empty one, with
\* whitespace before and after it, at most MaxTitleLen characters in all.
Titles ==
    {Spaces(i) \o core \o Spaces(j) :
        <<i, j, core>> \in {x \in (0..MaxTitleLen) \X (0..MaxTitleLen) \X {<< >>, <<"a">>} :
                                x[1] + x[2] + Len(x[3]) <= MaxTitleLen}}

\* Ids a caller may name: every id the generator can hand out, and one more
\* that it never hands out.
GeneratedIds == 1..MaxCreates
NeverCreatedId == MaxCreates + 1
CallerIds == GeneratedIds \cup {NeverCreatedId}

\* ------------------------------------------------------------ pure parts
\* String.prototype.trim, as used by handleSubmit: strips leading and
\* trailing whitespace.
IsSpace(c) == c = " "

RECURSIVE TrimStart(_)
TrimStart(s) ==
    IF s = << >> THEN << >>
    ELSE IF IsSpace(Head(s)) THEN TrimStart(Tail(s)) ELSE s

RECURSIVE TrimEnd(_)
TrimEnd(s) ==
    IF s = << >> THEN << >>
    ELSE IF IsSpace(s[Len(s)]) THEN TrimEnd(SubSeq(s, 1, Len(s) - 1)) ELSE s

trim(s) == TrimEnd(TrimStart(s))

\* The value of an optional that is present.
The(opt) == CHOOSE v \in opt : TRUE

\* A request body: the JSON object a caller sends.  Each key is optional.
\* description distinguishes a missing key ({}) from an explicit null ({{}})
\* and a text ({{d}}).
NoBody == [title |-> {}, description |-> {}, completed |-> {}, id |-> {}, createdAt |-> {}]

\* Bodies that vary the title: every title of Titles, or none.
TitleBodies ==
    {[NoBody EXCEPT !.title = t] : t \in {{}} \cup {{x} : x \in Titles}}

\* Bodies that vary the other keys, all with the same valid title: any
\* completed, or an id, or a createdAt.
LifecycleBodies ==
    LET titled == [NoBody EXCEPT !.title = {<<"a">>}]
    IN  {[titled EXCEPT !.completed = c] : c \in {{}, {TRUE}, {FALSE}}}
        \cup {[titled EXCEPT !.id = {i}] : i \in CallerIds}
        \cup {[titled EXCEPT !.createdAt = {0}]}

\* Bodies of the requests that meet a failing storage.
StorageBodies == {[NoBody EXCEPT !.title = {<<"a">>}, !.completed = c] : c \in {{}, {TRUE}}}

\* Bodies of the updates that race with deletes.
RaceBodies == {[NoBody EXCEPT !.completed = {c}] : c \in BOOLEAN}

\* Bodies of the creates and of the updates that vary which of title,
\* description and completed a request carries.  A description is a text
\* or null.
FrameCreates ==
    {[NoBody EXCEPT !.title = {<<"a">>}, !.description = d] : d \in {{}, {{<<"d">>}}}}

FrameUpdates ==
    RaceBodies
        \cup {[NoBody EXCEPT !.title = {<<"a", "a">>}]}
        \cup {[NoBody EXCEPT !.description = {{}}]}

\* What the user types into the form of the tasks page.
Descriptions == {<< >>, <<"d">>}

\* Bodies of the updates that bear on the time stamps.
TimeBodies == RaceBodies \cup {[NoBody EXCEPT !.createdAt = {0}]}

\* The responses of the generated REST API, named by their HTTP status.
Created == "201 Created"
Ok == "200 OK"
NoContent == "204 No Content"
NotFound == "404 Not Found"
ServerError == "500 Internal Server Error"

\* Response.ok of the fetch API, which every function of the client api
\* tests: true for a status in the range 200-299.
ResponseOk(status) == status \in {Ok, Created, NoContent}

\* ------------------------------------------------------- the Task entity
\* id = '' of a Task that has not been saved.
EmptyId == 0

\* new Task(): the field initialisers of the class.  sn is not a field of
\* the entity: it numbers the records in creation order so that a property
\* can follow one record through its life without relying on its id.
NewTask(t) ==
    [ sn          |-> 0,
      id          |-> EmptyId,
      title       |-> << >>,
      description |-> {},
      completed   |-> FALSE,
      createdAt   |-> t,
      updatedAt   |-> t ]

\* Variant of createId: an id derived from a coarse time stamp alone, which
\* two calls close together share.
createIdCoarse(counter) == (counter + 1) \div 2

\* Fields.cuid(): the generator embeds a counter that grows with every
\* call, so the n-th call yields a value no earlier call yielded.
createId(counter) == counter

\* Variant of ApplyBody: the title is trimmed before it is stored.
ApplyBodyTrimmed(row, body) ==
    [ row EXCEPT
        !.title       = IF body.title = {} THEN @ ELSE trim(The(body.title)),
        !.description = IF body.description = {} THEN @ ELSE The(body.description),
        !.completed   = IF body.completed = {} THEN @ ELSE The(body.completed) ]

\* Variant of ApplyBody: the id field is writable through the API.
ApplyBodyWithId(row, body) ==
    [ row EXCEPT
        !.id          = IF body.id = {} THEN @ ELSE The(body.id),
        !.title       = IF body.title = {} THEN @ ELSE The(body.title),
        !.description = IF body.description = {} THEN @ ELSE The(body.description),
        !.completed   = IF body.completed = {} THEN @ ELSE The(body.completed) ]

\* Variant of ApplyBody: the body replaces the whole entity, so a key that
\* the body lacks falls back to the class default.
ApplyBodyReplace(row, body) ==
    [ row EXCEPT
        !.title       = IF body.title = {} THEN << >> ELSE The(body.title),
        !.description = IF body.description = {} THEN {} ELSE The(body.description),
        !.completed   = IF body.completed = {} THEN FALSE ELSE The(body.completed) ]

\* Variant of ApplyBody: the createdAt field is writable through the API.
ApplyBodyWithCreatedAt(row, body) ==
    [ row EXCEPT
        !.title       = IF body.title = {} THEN @ ELSE The(body.title),
        !.description = IF body.description = {} THEN @ ELSE The(body.description),
        !.completed   = IF body.completed = {} THEN @ ELSE The(body.completed),
        !.createdAt   = IF body.createdAt = {} THEN @ ELSE The(body.createdAt) ]

\* The keys of a request body that the REST API copies into the entity.
\* Fields.string and Fields.boolean are writable; Fields.cuid,
\* Fields.createdAt and Fields.updatedAt are declared allowApiUpdate: false
\* by the framework, so a body's id and createdAt are ignored.  No field
\* declares a validator, so nothing rejects a title: it is stored as sent.
ApplyBody(row, body) ==
    [ row EXCEPT
        !.title       = IF body.title = {} THEN @ ELSE The(body.title),
        !.description = IF body.description = {} THEN @ ELSE The(body.description),
        !.completed   = IF body.completed = {} THEN @ ELSE The(body.completed) ]

\* The saving hooks of the generated fields, run field by field: cuid
\* fills an empty id, createdAt stamps a new row, updatedAt stamps every
\* save.  Each of the two stamps is its own new Date(): tc is the time the
\* createdAt hook reads and tu the time the updatedAt hook reads.
SavingAt(row, isNew, counter, tc, tu) ==
    [ row EXCEPT
        !.sn        = IF isNew THEN counter ELSE @,
        !.id        = IF @ = EmptyId THEN createId(counter) ELSE @,
        !.createdAt = IF isNew THEN tc ELSE @,
        !.updatedAt = tu ]

\* The saving hooks when the clock does not advance while they run.
Saving(row, isNew, counter, t) == SavingAt(row, isNew, counter, t, t)

\* ------------------------------------------------------ the tasks table
HasId(ts, id) == \E i \in DOMAIN ts : ts[i].id = id

RowOf(ts, id) == ts[CHOOSE i \in DOMAIN ts : ts[i].id = id]

\* "id" TEXT PRIMARY KEY: an INSERT of an id that is already in the table is
\* rejected.  "title" TEXT NOT NULL: every row of the model has a text
\* title, the empty text included, so this constraint rejects nothing.
InsertAllowed(ts, row) == ~HasId(ts, row.id)

\* Variant of update_updated_at_column: the trigger assigns the wrong
\* column's value.
update_updated_at_columnStale(new, t) == [new EXCEPT !.updatedAt = new.createdAt]

\* BEFORE UPDATE trigger update_tasks_updated_at.
update_updated_at_column(new, t) == [new EXCEPT !.updatedAt = t]

RECURSIVE SelectSeq2(_, _)
SelectSeq2(ts, id) ==
    IF ts = << >> THEN << >>
    ELSE IF Head(ts).id = id THEN SelectSeq2(Tail(ts), id)
         ELSE <<Head(ts)>> \o SelectSeq2(Tail(ts), id)

\* Variant of DeleteRow: a soft delete, which leaves the row in the table.
DeleteRowSoft(ts, id) == ts

\* DELETE FROM "tasks" WHERE id = $1
DeleteRow(ts, id) == SelectSeq2(ts, id)

\* UPDATE "tasks" SET ... WHERE id = $1, with the trigger applied.
UpdateRow(ts, row, t) ==
    [i \in DOMAIN ts |->
        IF ts[i].id = row.id THEN update_updated_at_column(row, t) ELSE ts[i]]

\* ------------------------------------------- the generated REST handlers
\* Each handler yields the table after the request, the status of the
\* response and the rows of its body.  dbFails is the outcome of the
\* storage call: the pool may fail to hand out a client.
Reply(ts, status, rows) == [tasks |-> ts, status |-> status, rows |-> rows]

\* Variant of PostRowAt: the updatedAt hook runs before the createdAt
\* hook.
PostRowAtSwapped(body, counter, tc, tu) ==
    SavingAt(ApplyBody(NewTask(tc), body), TRUE, counter, tu, tc)

\* POST /api/tasks, first part: the handler builds the entity from the
\* body and runs the saving hooks, which read the clock at tc and at tu.
PostRowAt(body, counter, tc, tu) ==
    SavingAt(ApplyBody(NewTask(tc), body), TRUE, counter, tc, tu)

\* POST /api/tasks, first part, when the clock does not advance while the
\* hooks run.
PostRow(body, counter, t) == PostRowAt(body, counter, t, t)

\* Variant of PostInsert: the row is written although the request is
\* answered with a failure.
PostInsertPartial(ts, row, dbFails) ==
    IF ~InsertAllowed(ts, row) THEN Reply(ts, ServerError, << >>)
    ELSE IF dbFails THEN Reply(Append(ts, row), ServerError, << >>)
    ELSE Reply(Append(ts, row), Created, <<row>>)

\* POST /api/tasks, second part: the INSERT and the response.
PostInsert(ts, row, dbFails) ==
    IF dbFails \/ ~InsertAllowed(ts, row) THEN Reply(ts, ServerError, << >>)
    ELSE Reply(Append(ts, row), Created, <<row>>)

\* POST /api/tasks
ServerPost(ts, body, counter, t, dbFails) ==
    PostInsert(ts, PostRow(body, counter, t), dbFails)

\* The orders in which a SELECT on "tasks" may return the rows.  Nothing
\* ties the order to that of the INSERTs: the rows come in the order of
\* their generated ids or in the order the table stores them, which an
\* UPDATE changes.
Orders(ts) == Permutations(DOMAIN ts)

\* GET /api/tasks, with the completed filter of the query string (where is
\* empty without one) and the order the SELECT returns the rows in.
ServerGetAll(ts, where, order, dbFails) ==
    IF dbFails THEN Reply(ts, ServerError, << >>)
    ELSE Reply(ts, Ok, SelectSeq([i \in DOMAIN ts |-> ts[order[i]]],
                                 LAMBDA row : where = {} \/ row.completed \in where))

\* GET /api/tasks/:id
ServerGetOne(ts, id, dbFails) ==
    IF dbFails THEN Reply(ts, ServerError, << >>)
    ELSE IF ~HasId(ts, id) THEN Reply(ts, NotFound, << >>)
    ELSE Reply(ts, Ok, <<RowOf(ts, id)>>)

\* Variant of ServerPut: an id that is not in the table is inserted.
ServerPutUpsert(ts, id, body, counter, t, dbFails) ==
    IF dbFails THEN Reply(ts, ServerError, << >>)
    ELSE IF ~HasId(ts, id)
         THEN LET row == Saving(ApplyBody([NewTask(t) EXCEPT !.id = id], body), TRUE, counter, t)
              IN  Reply(Append(ts, row), Ok, <<row>>)
    ELSE LET changed == ApplyBody(RowOf(ts, id), body)
             row     == Saving(changed, FALSE, counter, t)
             after   == UpdateRow(ts, row, t)
         IN  Reply(after, Ok, <<RowOf(after, id)>>)

\* Variant of ServerPut: a completed task cannot be reopened.
ServerPutNoReopen(ts, id, body, counter, t, dbFails) ==
    IF dbFails THEN Reply(ts, ServerError, << >>)
    ELSE IF ~HasId(ts, id) THEN Reply(ts, NotFound, << >>)
    ELSE IF RowOf(ts, id).completed /\ body.completed = {FALSE}
         THEN Reply(ts, "400 Bad Request", << >>)
    ELSE LET changed == ApplyBody(RowOf(ts, id), body)
             row     == Saving(changed, FALSE, counter, t)
             after   == UpdateRow(ts, row, t)
         IN  Reply(after, Ok, <<RowOf(after, id)>>)

\* Variant of ServerPut: the changed fields are written and updatedAt is
\* left as it was.
ServerPutKeepStamp(ts, id, body, counter, t, dbFails) ==
    IF dbFails THEN Reply(ts, ServerError, << >>)
    ELSE IF ~HasId(ts, id) THEN Reply(ts, NotFound, << >>)
    ELSE LET after == [i \in DOMAIN ts |->
                          IF ts[i].id = id THEN ApplyBody(ts[i], body) ELSE ts[i]]
         IN  Reply(after, Ok, <<RowOf(after, id)>>)

\* PUT /api/tasks/:id
ServerPut(ts, id, body, counter, t, dbFails) ==
    IF dbFails THEN Reply(ts, ServerError, << >>)
    ELSE IF ~HasId(ts, id) THEN Reply(ts, NotFound, << >>)
    ELSE LET changed == ApplyBody(RowOf(ts, id), body)
             row     == Saving(changed, FALSE, counter, t)
             after   == UpdateRow(ts, row, t)
         IN  Reply(after, Ok, <<RowOf(after, id)>>)

\* Variant of PutWrite: the row that the handler loaded is written back
\* when the UPDATE meets no row.
PutWriteUpsert(ts, id, body, counter, t, gone) ==
    ServerPutUpsert(ts, id, body, counter, t, FALSE)

\* PUT /api/tasks/:id, second part, for a request whose first part found
\* the row: the UPDATE ... WHERE id = $1 and the response.  When the row
\* has been deleted in between, the statement changes no row and the
\* handler answers with an error; gone is that answer.
PutWrite(ts, id, body, counter, t, gone) ==
    IF ~HasId(ts, id) THEN Reply(ts, gone, << >>)
    ELSE ServerPut(ts, id, body, counter, t, FALSE)

\* Variant of ServerDelete: deleting an id that is not in the table is
\* answered as a success.
ServerDeleteSilent(ts, id, dbFails) ==
    IF dbFails THEN Reply(ts, ServerError, << >>)
    ELSE Reply(DeleteRow(ts, id), NoContent, << >>)

\* DELETE /api/tasks/:id
ServerDelete(ts, id, dbFails) ==
    IF dbFails THEN Reply(ts, ServerError, << >>)
    ELSE IF ~HasId(ts, id) THEN Reply(ts, NotFound, << >>)
    ELSE Reply(DeleteRow(ts, id), NoContent, << >>)

\* DELETE /api/tasks/:id, second part, for a request whose first part
\* found the row: the DELETE ... WHERE id = $1 and the response.  When the
\* row has been deleted in between, the statement changes no row; gone is
\* the answer of the handler then.
DeleteWrite(ts, id, gone) ==
    IF ~HasId(ts, id) THEN Reply(ts, gone, << >>)
    ELSE ServerDelete(ts, id, FALSE)

\* --------------------------------------------------- the database schema
\* The objects that the migration creates, by kind.
EmptySchema == [tables |-> {}, indexes |-> {}, functions |-> {}, triggers |-> {}]

\* The schema that the application runs on: the one of migrate.ts.
MigratedSchema ==
    [ tables    |-> {"tasks"},
      indexes   |-> {"idx_tasks_completed", "idx_tasks_createdAt"},
      functions |-> {"update_updated_at_column"},
      triggers  |-> {"update_tasks_updated_at"} ]

\* The statements of the migration, in the order of the script.
MigrationSql ==
    << [kind |-> "CREATE TABLE IF NOT EXISTS", name |-> "tasks"],
       [kind |-> "CREATE INDEX IF NOT EXISTS", name |-> "idx_tasks_completed"],
       [kind |-> "CREATE INDEX IF NOT EXISTS", name |-> "idx_tasks_createdAt"],
       [kind |-> "CREATE OR REPLACE FUNCTION", name |-> "update_updated_at_column"],
       [kind |-> "DROP TRIGGER IF EXISTS", name |-> "update_tasks_updated_at"],
       [kind |-> "CREATE TRIGGER", name |-> "update_tasks_updated_at"] >>

\* The outcome of a statement: the schema after it, and whether it
\* succeeded.
Done(s) == [schema |-> s, ok |-> TRUE]
Refused(s) == [schema |-> s, ok |-> FALSE]

\* Variant of DropTrigger: the trigger is left in place.
DropTriggerKept(s, name) == Done(s)

\* DROP TRIGGER IF EXISTS name ON "tasks"
DropTrigger(s, name) == Done([s EXCEPT !.triggers = @ \ {name}])

\* CREATE TRIGGER name BEFORE UPDATE ON "tasks" ... EXECUTE FUNCTION
\* update_updated_at_column(): refused when the table or the function is
\* missing, or when the table has a trigger of that name.
CreateTrigger(s, name) ==
    IF \/ "tasks" \notin s.tables
       \/ "update_updated_at_column" \notin s.functions
       \/ name \in s.triggers
    THEN Refused(s)
    ELSE Done([s EXCEPT !.triggers = @ \cup {name}])

\* One statement of the migration.  The IF NOT EXISTS and OR REPLACE forms
\* succeed whether or not the object is there; an index needs its table.
ExecStatement(s, st) ==
    CASE st.kind = "CREATE TABLE IF NOT EXISTS" ->
             Done([s EXCEPT !.tables = @ \cup {st.name}])
      [] st.kind = "CREATE INDEX IF NOT EXISTS" ->
             IF "tasks" \in s.tables
             THEN Done([s EXCEPT !.indexes = @ \cup {st.name}])
             ELSE Refused(s)
      [] st.kind = "CREATE OR REPLACE FUNCTION" ->
             Done([s EXCEPT !.functions = @ \cup {st.name}])
      [] st.kind = "DROP TRIGGER IF EXISTS" -> DropTrigger(s, st.name)
      [] st.kind = "CREATE TRIGGER" -> CreateTrigger(s, st.name)

\* The statements one after the other, up to the first that is refused.
RECURSIVE ExecStatements(_, _)
ExecStatements(s, sql) ==
    IF sql = << >> THEN Done(s)
    ELSE LET r == ExecStatement(s, Head(sql))
         IN  IF r.ok THEN ExecStatements(r.schema, Tail(sql)) ELSE r

\* dataProvider.execute(sql): the statements are sent as one query, which
\* the database runs as one transaction: when the pool hands out no
\* client or a statement is refused, the schema is as before.
Execute(s, sql, dbFails) ==
    IF dbFails THEN Refused(s)
    ELSE LET r == ExecStatements(s, sql)
         IN  IF r.ok THEN r ELSE Refused(s)

\* ------------------------------------------------------ the express app
\* A request path is a text, kept as the sequence of its characters.
Path_api == <<"/", "a", "p", "i">>
Path_api_health == <<"/", "a", "p", "i", "/", "h", "e", "a", "l", "t", "h">>
Path_api_hello == <<"/", "a", "p", "i", "/", "h", "e", "l", "l", "o">>
Path_api_tasks == <<"/", "a", "p", "i", "/", "t", "a", "s", "k", "s">>
Path_index == <<"/">>
Path_app_js == <<"/", "a", "p", "p", ".", "j", "s">>

\* The paths of the GET requests.
RequestPaths ==
    { Path_api_health,
      Path_api_hello,
      Path_api_tasks,
      Path_api,
      Path_index,
      Path_app_js,
      <<"/", "a", "p", "i", "/", "t", "a", "s", "k", "s", "/", "1">>,
      <<"/", "a", "p", "i", "/", "x">>,
      <<"/", "a", "p", "i", "x">>,
      <<"/", "A", "P", "I", "/", "x">>,
      <<"/", "t", "a", "s", "k", "s">>,
      <<"/", "x">> }

\* String.prototype.startsWith
startsWith(text, prefix) ==
    /\ Len(text) >= Len(prefix)
    /\ SubSeq(text, 1, Len(prefix)) = prefix

\* What a handler sends: the status and the body.
Sent(status, body) == [status |-> status, sent |-> body]

\* The paths that the Remult middleware answers itself: the entity's route
\* and the routes below it.  Any other path is passed on.
ApiHandles(path) ==
    path = Path_api_tasks \/ startsWith(path, Path_api_tasks \o <<"/">>)

\* The files of the client build that express.static serves; "/" is served
\* from index.html.
StaticHandles(path) == path \in {Path_index, Path_app_js}

\* Variant of SpaFallback: index.html for every path.
SpaFallbackAll(path) == Sent(Ok, "index.html")

\* app.get('*'): the SPA fallback.
SpaFallback(path) ==
    IF startsWith(path, Path_api) THEN Sent(NotFound, "{error: 'Not found'}")
    ELSE Sent(Ok, "index.html")

\* The handlers of the app in the order of their registration, for a GET
\* request: the first that matches answers.  Without the client build
\* neither the static files nor the fallback are registered, and express
\* answers an unmatched request itself.
RouteGet(clientDistExists, path) ==
    IF path = Path_api_health THEN Sent(Ok, "{status: 'ok'}")
    ELSE IF path = Path_api_hello THEN Sent(Ok, "{message: 'Hello'}")
    ELSE IF ApiHandles(path) THEN Sent(Ok, "api")
    ELSE IF ~clientDistExists THEN Sent(NotFound, "Cannot GET")
    ELSE IF StaticHandles(path) THEN Sent(Ok, "file")
    ELSE SpaFallback(path)

\* No script is running: no client of the pool is checked out, the pool
\* is open and nothing listens.
NoProcess ==
    [ script |-> "none", pc |-> "idle", runs |-> 0, held |-> 0, acquired |-> 0,
      ends |-> 0, exit |-> {}, listening |-> FALSE, logs |-> {}, result |-> {} ]

\* No request has reached the express app.
NoExchange ==
    [ clientDistExists |-> FALSE, path |-> << >>, status |-> Ok, sent |-> "none" ]

\* ------------------------------------------------------------ the callers
\* Who sends a request to the API: a client that sends no credentials, and
\* one that sends a token with its requests.
Callers == {"anonymous", "token"}

\* remult.user of a request: remultExpress is given no getUser option, so
\* no request has a user, whatever it sends.
getUser(c) == {}

\* The values of allowApiCrud: true, and Allow.authenticated.
AllowEveryone == "true"

AllowAuthenticated == "Allow.authenticated"

\* Variant of allowApiCrud: the entity is open to authenticated users only.
allowApiCrudAuthenticated == AllowAuthenticated

\* allowApiCrud: true of the Task entity.
allowApiCrud == AllowEveryone

\* Whether an allow option lets a request with this user through.
isAllowed(allow, user) ==
    \/ allow = AllowEveryone
    \/ allow = AllowAuthenticated /\ user # {}

\* The answers of a request that is not let through.
Unauthorized == "401 Unauthorized"

Forbidden == "403 Forbidden"

\* The check that comes before each handler of the entity's routes: a
\* request that is not allowed is answered without reaching the handler,
\* and the table stays as it is.
Authorize(c, ts, reply) ==
    IF isAllowed(allowApiCrud, getUser(c)) THEN reply
    ELSE Reply(ts, Forbidden, << >>)

\* The tasks page before it is opened: the ['tasks'] query has no data and
\* no request is in flight.  data is what the query holds, fetching the
\* response of a getAll on its way, inflight the mutations on their way,
\* and the three flags are the isPending of the three mutations.
PageUnmounted ==
    [ data |-> {}, error |-> FALSE, invalidated |-> FALSE, fetching |-> {},
      inflight |-> EmptyBag,
      createPending |-> FALSE, updatePending |-> FALSE, deletePending |-> FALSE ]

\* ------------------------------------------------------------ the state
VARIABLES
    tasks,      \* the rows of the "tasks" table, in insertion order
    idCounter,  \* number of ids the generator has handed out
    clock,      \* the current time
    last,       \* the latest request and what its caller observed
    pending,    \* requests in flight, between the two parts of their handler
    deleted,    \* ids whose DELETE has succeeded (history)
    issued,     \* ids returned by successful creates, in order (history)
    schema,     \* the objects of the database schema
    proc,       \* the process that runs a script: the server or a migration
    web,        \* the latest request to the express app and its response
    page,       \* the tasks page of one browser
    caller      \* who sent the latest request that names its sender

\* What surrounds the REST API: the requests of api.tasks leave it alone.
hostVars == <<schema, proc, web, page, caller>>

\* What the REST API works on: the scripts and the router leave it alone.
dataVars == <<tasks, idCounter, clock, last, pending, deleted, issued>>

vars == <<tasks, idCounter, clock, last, pending, deleted, issued,
          schema, proc, web, page, caller>>

\* Variant of Observed: the function does not look at response.ok and
\* returns whatever the response carries.
ObservedUnchecked(op, id, body, reply) ==
    [ op         |-> op,
      id         |-> id,
      req        |-> body,
      status     |-> reply.status,
      threw      |-> FALSE,
      rows       |-> reply.rows,
      existed    |-> HasId(tasks, id),
      wasDeleted |-> id \in deleted ]

\* What the caller of the client api observes: the function throws an Error
\* when the response is not ok, and returns the body otherwise.  existed and
\* wasDeleted record, for the properties, whether the id named by the
\* request was in the table, and whether it had been deleted, when the
\* request was made.
Observed(op, id, body, reply) ==
    [ op         |-> op,
      id         |-> id,
      req        |-> body,
      status     |-> reply.status,
      threw      |-> ~ResponseOk(reply.status),
      rows       |-> IF ResponseOk(reply.status) THEN reply.rows ELSE << >>,
      existed    |-> HasId(tasks, id),
      wasDeleted |-> id \in deleted ]

\* What the caller of api.tasks gets thrown for an observation: each
\* function throws one Error with a fixed message when the response is not
\* ok, whatever the status, and nothing otherwise.
Thrown(o) ==
    IF ~o.threw THEN "none"
    ELSE CASE o.op = "list"   -> "Error: Failed to fetch tasks"
           [] o.op = "get"    -> "Error: Failed to fetch task"
           [] o.op = "create" -> "Error: Failed to create task"
           [] o.op = "update" -> "Error: Failed to update task"
           [] o.op = "delete" -> "Error: Failed to delete task"

Init ==
    /\ tasks = << >>
    /\ idCounter = 0
    /\ clock = 0
    /\ last = [op |-> "none", id |-> EmptyId, req |-> NoBody, status |-> Ok,
               threw |-> FALSE, rows |-> << >>, existed |-> FALSE, wasDeleted |-> FALSE]
    /\ pending = {}
    /\ deleted = {}
    /\ issued = << >>
    /\ schema = MigratedSchema
    /\ proc = NoProcess
    /\ web = NoExchange
    /\ page = PageUnmounted
    /\ caller = "nobody"

\* Time passes.
Tick ==
    /\ clock < MaxClock
    /\ clock' = clock + 1
    /\ UNCHANGED <<tasks, idCounter, last, pending, deleted, issued, hostVars>>

\* api.tasks.create(body)
Create(body, dbFails) ==
    /\ idCounter < MaxCreates
    /\ LET reply == ServerPost(tasks, body, idCounter + 1, clock, dbFails)
           newId == IF reply.rows = << >> THEN EmptyId ELSE reply.rows[1].id
       IN  /\ tasks' = reply.tasks
           /\ last' = Observed("create", newId, body, reply)
           /\ issued' = IF ResponseOk(reply.status) THEN Append(issued, newId) ELSE issued
    /\ idCounter' = idCounter + 1
    /\ UNCHANGED <<clock, pending, deleted, hostVars>>

\* api.tasks.create(body) with the clock read by each of the two time
\* stamp hooks: the createdAt hook reads the current time and the updatedAt
\* hook reads tu, the same time or the next one.
CreateTimed(body, tu) ==
    /\ idCounter < MaxCreates
    /\ tu \in clock .. clock + 1
    /\ tu <= MaxClock
    /\ LET row   == PostRowAt(body, idCounter + 1, clock, tu)
           reply == PostInsert(tasks, row, FALSE)
       IN  /\ tasks' = reply.tasks
           /\ last' = Observed("create", row.id, body, reply)
           /\ issued' = IF ResponseOk(reply.status) THEN Append(issued, row.id) ELSE issued
    /\ idCounter' = idCounter + 1
    /\ clock' = tu
    /\ UNCHANGED <<pending, deleted, hostVars>>

\* api.tasks.create(body) of a caller that runs concurrently with others,
\* first part: the request reaches the handler, which builds the row.
CreateBegin(body) ==
    /\ idCounter < MaxCreates
    /\ pending' = pending \cup {[req |-> body, row |-> PostRow(body, idCounter + 1, clock)]}
    /\ idCounter' = idCounter + 1
    /\ UNCHANGED <<tasks, clock, last, deleted, issued, hostVars>>

\* Second part: the INSERT of one of the requests in flight, in any order,
\* and the response to its caller.
CreateCommit(p) ==
    /\ p \in pending
    /\ LET reply == PostInsert(tasks, p.row, FALSE)
           newId == IF reply.rows = << >> THEN EmptyId ELSE reply.rows[1].id
       IN  /\ tasks' = reply.tasks
           /\ last' = Observed("create", newId, p.req, reply)
           /\ issued' = IF ResponseOk(reply.status) THEN Append(issued, newId) ELSE issued
    /\ pending' = pending \ {p}
    /\ UNCHANGED <<idCounter, clock, deleted, hostVars>>

\* api.tasks.getAll()
GetAll(dbFails) ==
    /\ \E order \in Orders(tasks) :
          last' = Observed("list", EmptyId, NoBody, ServerGetAll(tasks, {}, order, dbFails))
    /\ UNCHANGED <<tasks, idCounter, clock, pending, deleted, issued, hostVars>>

\* GET /api/tasks?completed=c, the list restricted to the tasks whose
\* completed is c.
GetAllWhere(c) ==
    /\ \E order \in Orders(tasks) :
          last' = Observed("list", EmptyId, [NoBody EXCEPT !.completed = {c}],
                           ServerGetAll(tasks, {c}, order, FALSE))
    /\ UNCHANGED <<tasks, idCounter, clock, pending, deleted, issued, hostVars>>

\* api.tasks.getOne(id)
GetOne(id, dbFails) ==
    /\ last' = Observed("get", id, NoBody, ServerGetOne(tasks, id, dbFails))
    /\ UNCHANGED <<tasks, idCounter, clock, pending, deleted, issued, hostVars>>

\* api.tasks.update(id, body)
Update(id, body, dbFails) ==
    /\ LET reply == ServerPut(tasks, id, body, idCounter, clock, dbFails)
       IN  /\ tasks' = reply.tasks
           /\ last' = Observed("update", id, body, reply)
    /\ UNCHANGED <<idCounter, clock, pending, deleted, issued, hostVars>>

\* api.tasks.delete(id)
Delete(id, dbFails) ==
    /\ LET reply == ServerDelete(tasks, id, dbFails)
       IN  /\ tasks' = reply.tasks
           /\ last' = Observed("delete", id, NoBody, reply)
           /\ deleted' = IF ResponseOk(reply.status) THEN deleted \cup {id} ELSE deleted
    /\ UNCHANGED <<idCounter, clock, pending, issued, hostVars>>

\* api.tasks.update(id, body) of a caller that runs concurrently with
\* others, first part: the handler looks the row up.  An id that is not in
\* the table is answered at once; otherwise the request stays in flight.
UpdateBegin(id, body) ==
    /\ Cardinality(pending) < MaxInflight
    /\ IF HasId(tasks, id)
       THEN /\ pending' = pending \cup {[op |-> "update", id |-> id, req |-> body]}
            /\ UNCHANGED last
       ELSE /\ last' = Observed("update", id, body, ServerPut(tasks, id, body, idCounter, clock, FALSE))
            /\ UNCHANGED pending
    /\ UNCHANGED <<tasks, idCounter, clock, deleted, issued, hostVars>>

\* Second part of an update in flight: the write and the response.  The
\* caller's request found its row, which existed records.
UpdateCommit(p, gone) ==
    /\ p \in pending
    /\ p.op = "update"
    /\ LET reply == PutWrite(tasks, p.id, p.req, idCounter, clock, gone)
       IN  /\ tasks' = reply.tasks
           /\ last' = [Observed("update", p.id, p.req, reply) EXCEPT !.existed = TRUE]
    /\ pending' = pending \ {p}
    /\ UNCHANGED <<idCounter, clock, deleted, issued, hostVars>>

\* api.tasks.delete(id) of a caller that runs concurrently with others,
\* first part: the handler looks the row up.
DeleteBegin(id) ==
    /\ Cardinality(pending) < MaxInflight
    /\ IF HasId(tasks, id)
       THEN /\ pending' = pending \cup {[op |-> "delete", id |-> id, req |-> NoBody]}
            /\ UNCHANGED last
       ELSE /\ last' = Observed("delete", id, NoBody, ServerDelete(tasks, id, FALSE))
            /\ UNCHANGED pending
    /\ UNCHANGED <<tasks, idCounter, clock, deleted, issued, hostVars>>

\* Second part of a delete in flight: the write and the response.
DeleteCommit(p, gone) ==
    /\ p \in pending
    /\ p.op = "delete"
    /\ LET reply == DeleteWrite(tasks, p.id, gone)
       IN  /\ tasks' = reply.tasks
           /\ last' = [Observed("delete", p.id, NoBody, reply) EXCEPT !.existed = TRUE]
           /\ deleted' = IF ResponseOk(reply.status) THEN deleted \cup {p.id} ELSE deleted
    /\ pending' = pending \ {p}
    /\ UNCHANGED <<idCounter, clock, issued, hostVars>>

\* ------------------------------------------------------ the migrate script
\* migrate() is started, as a new process with a pool of its own.
MigrateStart ==
    /\ proc.pc \in {"idle", "exited"}
    /\ proc.runs < MaxRuns
    /\ proc' = [NoProcess EXCEPT !.script = "migrate", !.pc = "execute",
                                 !.runs = proc.runs + 1]
    /\ UNCHANGED <<dataVars, schema, web, page, caller>>

\* Variant of migrateCatch: the catch block of generateMigration, which
\* exits without ending the pool.
generateMigrationCatch(p) == [p EXCEPT !.logs = @ \cup {"Migration failed"}, !.pc = "exit"]

\* The catch block of migrate(): it logs and goes on to end the pool.
migrateCatch(p) == [p EXCEPT !.logs = @ \cup {"Migration failed"}, !.pc = "end"]

\* The rest of the try block of migrate() after the SQL has run.
migrateTry(p) == [p EXCEPT !.logs = @ \cup {"Migration completed"}, !.pc = "end"]

\* await dataProvider.execute(sql)
MigrateExecute(dbFails) ==
    /\ proc.script = "migrate"
    /\ proc.pc = "execute"
    /\ LET r == Execute(schema, MigrationSql, dbFails)
           p == [proc EXCEPT !.result = {r.ok}]
       IN  /\ schema' = r.schema
           /\ proc' = IF r.ok THEN migrateTry(p) ELSE migrateCatch(p)
    /\ UNCHANGED <<dataVars, web, page, caller>>

\* await pool.end()
MigratePoolEnd ==
    /\ proc.script = "migrate"
    /\ proc.pc = "end"
    /\ proc' = [proc EXCEPT !.ends = @ + 1, !.pc = "exit"]
    /\ UNCHANGED <<dataVars, schema, web, page, caller>>

\* process.exit(0) at the end of the try block, process.exit(1) at the end
\* of the catch block.
MigrateExit ==
    /\ proc.script = "migrate"
    /\ proc.pc = "exit"
    /\ proc' = [proc EXCEPT !.exit = {IF proc.result = {TRUE} THEN 0 ELSE 1},
                            !.pc = "exited"]
    /\ UNCHANGED <<dataVars, schema, web, page, caller>>

\* ---------------------------------------------------- the server process
\* The server process is started, or started again after it was stopped.
ServerStart ==
    /\ proc.pc \in {"idle", "listening", "exited"}
    /\ proc.runs < MaxRuns
    /\ proc' = [NoProcess EXCEPT !.script = "server", !.pc = "connect",
                                 !.runs = proc.runs + 1]
    /\ UNCHANGED <<dataVars, schema, web, page, caller>>

\* The catch block of testConnection: it logs and returns false.
testConnectionCatch(p) ==
    [p EXCEPT !.logs = @ \cup {"Database connection failed"},
              !.result = {FALSE}, !.pc = "tested"]

\* testConnection, const client = await pool.connect(): the pool hands out
\* a client, or the call fails and the catch block runs.
TestConnect(dbFails) ==
    /\ proc.script = "server"
    /\ proc.pc = "connect"
    /\ proc' = IF dbFails THEN testConnectionCatch(proc)
               ELSE [proc EXCEPT !.held = @ + 1, !.acquired = @ + 1,
                                 !.logs = @ \cup {"Database connection successful"},
                                 !.pc = "release"]
    /\ UNCHANGED <<dataVars, schema, web, page, caller>>

\* Variant of releaseAndReturn: the client is not given back.
returnWithoutRelease(p) == [p EXCEPT !.result = {TRUE}, !.pc = "tested"]

\* testConnection, client.release() and return true.
releaseAndReturn(p) == [p EXCEPT !.held = @ - 1, !.result = {TRUE}, !.pc = "tested"]

TestRelease ==
    /\ proc.script = "server"
    /\ proc.pc = "release"
    /\ proc' = releaseAndReturn(proc)
    /\ UNCHANGED <<dataVars, schema, web, page, caller>>

\* startServer after await testConnection(): the value returned is not
\* looked at and app.listen is called; the catch block runs only for a
\* call that threw.
StartListen ==
    /\ proc.script = "server"
    /\ proc.pc = "tested"
    /\ proc' = IF proc.result \subseteq BOOLEAN
               THEN [proc EXCEPT !.listening = TRUE, !.pc = "listening"]
               ELSE [proc EXCEPT !.logs = @ \cup {"Failed to start server"},
                                 !.exit = {1}, !.pc = "exited"]
    /\ UNCHANGED <<dataVars, schema, web, page, caller>>

\* A GET request reaches the app of a listening server.
HttpGet(path) ==
    /\ proc.script = "server"
    /\ proc.listening
    /\ LET r == RouteGet(web.clientDistExists, path)
       IN  web' = [web EXCEPT !.path = path, !.status = r.status, !.sent = r.sent]
    /\ UNCHANGED <<dataVars, schema, proc, page, caller>>

\* ---------------------------------------------------------- the tasks page
\* The form and the list are rendered once the query has data and no error.
Rendered(pg) == pg.data # {} /\ ~pg.error

\* Variant of handleSubmit: the title is tested as typed.
handleSubmitUntrimmed(newTaskTitle, newTaskDescription) ==
    IF newTaskTitle # << >>
    THEN {[NoBody EXCEPT
             !.title = {newTaskTitle},
             !.description = IF newTaskDescription = << >> THEN {}
                             ELSE {{newTaskDescription}}]}
    ELSE {}

\* handleSubmit: the bodies it passes to createMutation.mutate, one or
\* none.  An empty description becomes undefined, and JSON leaves the key
\* out.
handleSubmit(newTaskTitle, newTaskDescription) ==
    IF trim(newTaskTitle) # << >>
    THEN {[NoBody EXCEPT
             !.title = {newTaskTitle},
             !.description = IF newTaskDescription = << >> THEN {}
                             ELSE {{newTaskDescription}}]}
    ELSE {}

\* toggleTask: the id and the body that updateMutation passes to
\* api.tasks.update for a task of the list.
toggleTask(task) ==
    [id |-> task.id, data |-> [NoBody EXCEPT !.completed = {~task.completed}]]

\* Variant of SubmitDisabled: the button is never disabled.
SubmitEnabledAlways(pg) == FALSE

\* disabled={createMutation.isPending} of the submit button.
SubmitDisabled(pg) == pg.createPending

\* disabled={updateMutation.isPending} of the toggle buttons.
ToggleDisabled(pg) == pg.updatePending

\* disabled={deleteMutation.isPending} of the delete buttons.
DeleteDisabled(pg) == pg.deletePending

\* queryClient.invalidateQueries({queryKey: ['tasks']}): the query is
\* marked invalid and refetched; a fetch on its way is cancelled.
invalidateQueries(pg) == [pg EXCEPT !.invalidated = TRUE, !.fetching = {}]

\* Variant of onSuccess: only the create mutation invalidates the query.
onSuccessCreateOnly(pg, kind) ==
    IF kind = "create" THEN invalidateQueries(pg) ELSE pg

\* onSuccess of the three mutations.
onSuccess(pg, kind) == invalidateQueries(pg)

\* mutate(): the mutation is pending and its request is on its way; ok is
\* whether the response, once it is back, is ok.
Mutate(pg, kind, id, body, ok) ==
    [pg EXCEPT
       !.inflight = @ (+) SetToBag({[kind |-> kind, id |-> id, req |-> body, ok |-> ok]}),
       !.createPending = IF kind = "create" THEN TRUE ELSE @,
       !.updatePending = IF kind = "update" THEN TRUE ELSE @,
       !.deletePending = IF kind = "delete" THEN TRUE ELSE @]

\* The number of mutations of a kind that are on their way.
InFlight(pg, kind) ==
    LET ms == {m \in BagToSet(pg.inflight) : m.kind = kind}
    IN  BagCardinality([m \in ms |-> pg.inflight[m]])

\* useQuery: a getAll is sent, when the page is opened and whenever the
\* query is refetched; the response is on its way.
PageFetch(dbFails) ==
    /\ page.fetching = {}
    /\ \E order \in Orders(tasks) :
          LET reply == ServerGetAll(tasks, {}, order, dbFails)
          IN  page' = [page EXCEPT
                         !.fetching = {[ok |-> ResponseOk(reply.status),
                                        rows |-> reply.rows]}]
    /\ UNCHANGED <<dataVars, schema, proc, web, caller>>

\* The response of the getAll arrives: the query takes the list, or the
\* error with the data it had.
PageFetchEnd ==
    /\ page.fetching # {}
    /\ LET r == The(page.fetching)
       IN  page' = IF r.ok
                   THEN [page EXCEPT !.data = {r.rows}, !.error = FALSE,
                                     !.invalidated = FALSE, !.fetching = {}]
                   ELSE [page EXCEPT !.error = TRUE, !.fetching = {}]
    /\ UNCHANGED <<dataVars, schema, proc, web, caller>>

\* The form is submitted with what the user typed: handleSubmit, and the
\* server's handling of the request it sends.
PageSubmit(newTaskTitle, newTaskDescription, dbFails) ==
    /\ Rendered(page)
    /\ ~SubmitDisabled(page)
    /\ BagCardinality(page.inflight) < MaxInflight
    /\ idCounter < MaxCreates
    /\ \E body \in handleSubmit(newTaskTitle, newTaskDescription) :
          LET reply == ServerPost(tasks, body, idCounter + 1, clock, dbFails)
          IN  /\ tasks' = reply.tasks
              /\ issued' = IF ResponseOk(reply.status)
                            THEN Append(issued, reply.rows[1].id) ELSE issued
              /\ page' = Mutate(page, "create", EmptyId, body, ResponseOk(reply.status))
    /\ idCounter' = idCounter + 1
    /\ UNCHANGED <<clock, last, pending, deleted, schema, proc, web, caller>>

\* The toggle button of a task of the list is clicked.
PageToggle(i, dbFails) ==
    /\ Rendered(page)
    /\ ~ToggleDisabled(page)
    /\ BagCardinality(page.inflight) < MaxInflight
    /\ i \in DOMAIN The(page.data)
    /\ LET t     == toggleTask(The(page.data)[i])
           reply == ServerPut(tasks, t.id, t.data, idCounter, clock, dbFails)
       IN  /\ tasks' = reply.tasks
           /\ page' = Mutate(page, "update", t.id, t.data, ResponseOk(reply.status))
    /\ UNCHANGED <<idCounter, clock, last, pending, deleted, issued, schema, proc, web, caller>>

\* The delete button of a task of the list is clicked.
PageDelete(i, dbFails) ==
    /\ Rendered(page)
    /\ ~DeleteDisabled(page)
    /\ BagCardinality(page.inflight) < MaxInflight
    /\ i \in DOMAIN The(page.data)
    /\ LET id    == The(page.data)[i].id
           reply == ServerDelete(tasks, id, dbFails)
       IN  /\ tasks' = reply.tasks
           /\ deleted' = IF ResponseOk(reply.status) THEN deleted \cup {id} ELSE deleted
           /\ page' = Mutate(page, "delete", id, NoBody, ResponseOk(reply.status))
    /\ UNCHANGED <<idCounter, clock, last, pending, issued, schema, proc, web, caller>>

\* The response of a mutation arrives: the mutation is no longer pending,
\* and onSuccess runs when the response is ok.
PageSettle(m) ==
    /\ BagIn(m, page.inflight)
    /\ LET pg == [page EXCEPT
                    !.inflight = @ (-) SetToBag({m}),
                    !.createPending = IF m.kind = "create" THEN FALSE ELSE @,
                    !.updatePending = IF m.kind = "update" THEN FALSE ELSE @,
                    !.deletePending = IF m.kind = "delete" THEN FALSE ELSE @]
       IN  page' = IF m.ok THEN onSuccess(pg, m.kind) ELSE pg
    /\ UNCHANGED <<dataVars, schema, proc, web, caller>>

\* ------------------------------------------------- requests of a caller
\* POST /api/tasks sent by caller c.
CreateAs(c, body) ==
    /\ idCounter < MaxCreates
    /\ LET reply == Authorize(c, tasks, ServerPost(tasks, body, idCounter + 1, clock, FALSE))
           newId == IF reply.rows = << >> THEN EmptyId ELSE reply.rows[1].id
       IN  /\ tasks' = reply.tasks
           /\ last' = Observed("create", newId, body, reply)
           /\ issued' = IF ResponseOk(reply.status) THEN Append(issued, newId) ELSE issued
    /\ idCounter' = idCounter + 1
    /\ caller' = c
    /\ UNCHANGED <<clock, pending, deleted, schema, proc, web, page>>

\* GET /api/tasks sent by caller c.
GetAllAs(c) ==
    /\ \E order \in Orders(tasks) :
          last' = Observed("list", EmptyId, NoBody,
                           Authorize(c, tasks, ServerGetAll(tasks, {}, order, FALSE)))
    /\ caller' = c
    /\ UNCHANGED <<tasks, idCounter, clock, pending, deleted, issued, schema, proc, web, page>>

\* GET /api/tasks/:id sent by caller c.
GetOneAs(c, id) ==
    /\ last' = Observed("get", id, NoBody, Authorize(c, tasks, ServerGetOne(tasks, id, FALSE)))
    /\ caller' = c
    /\ UNCHANGED <<tasks, idCounter, clock, pending, deleted, issued, schema, proc, web, page>>

\* PUT /api/tasks/:id sent by caller c.
UpdateAs(c, id, body) ==
    /\ LET reply == Authorize(c, tasks, ServerPut(tasks, id, body, idCounter, clock, FALSE))
       IN  /\ tasks' = reply.tasks
           /\ last' = Observed("update", id, body, reply)
    /\ caller' = c
    /\ UNCHANGED <<idCounter, clock, pending, deleted, issued, schema, proc, web, page>>

\* DELETE /api/tasks/:id sent by caller c.
DeleteAs(c, id) ==
    /\ LET reply == Authorize(c, tasks, ServerDelete(tasks, id, FALSE))
       IN  /\ tasks' = reply.tasks
           /\ last' = Observed("delete", id, NoBody, reply)
           /\ deleted' = IF ResponseOk(reply.status) THEN deleted \cup {id} ELSE deleted
    /\ caller' = c
    /\ UNCHANGED <<idCounter, clock, pending, issued, schema, proc, web, page>>

\* Requests of every kind while the storage works, with the bodies that
\* vary completed, id and createdAt.
Next ==
    \/ Tick
    \/ \E body \in LifecycleBodies : Create(body, FALSE)
    \/ GetAll(FALSE)
    \/ \E id \in CallerIds : GetOne(id, FALSE)
    \/ \E id \in CallerIds, body \in LifecycleBodies : Update(id, body, FALSE)
    \/ \E id \in CallerIds : Delete(id, FALSE)

Spec == Init /\ [][Next]_vars

\* Requests of every kind while the storage works, with the bodies that
\* vary the title.
NextTitle ==
    \/ \E body \in TitleBodies : Create(body, FALSE)
    \/ GetAll(FALSE)
    \/ \E id \in CallerIds : GetOne(id, FALSE)
    \/ \E id \in CallerIds, body \in TitleBodies : Update(id, body, FALSE)
    \/ \E id \in CallerIds : Delete(id, FALSE)

SpecTitle == Init /\ [][NextTitle]_vars

\* Requests of every kind, each of which the storage may fail.
NextStorage ==
    \/ Tick
    \/ \E body \in StorageBodies, dbFails \in BOOLEAN : Create(body, dbFails)
    \/ \E dbFails \in BOOLEAN : GetAll(dbFails)
    \/ \E id \in CallerIds, dbFails \in BOOLEAN : GetOne(id, dbFails)
    \/ \E id \in CallerIds, body \in StorageBodies, dbFails \in BOOLEAN : Update(id, body, dbFails)
    \/ \E id \in CallerIds, dbFails \in BOOLEAN : Delete(id, dbFails)

SpecStorage == Init /\ [][NextStorage]_vars

\* Create requests that overlap each other and the deletes and reads of
\* other callers.
NextConcurrent ==
    \/ Tick
    \/ \E body \in StorageBodies : CreateBegin(body)
    \/ \E p \in pending : CreateCommit(p)
    \/ \E id \in CallerIds : GetOne(id, FALSE)
    \/ \E id \in CallerIds : Delete(id, FALSE)

SpecConcurrent == Init /\ [][NextConcurrent]_vars

\* Updates and deletes that overlap each other.  The answer of a write that
\* meets no row is left open between the two errors.
NextRace ==
    \/ \E body \in StorageBodies : Create(body, FALSE)
    \/ \E id \in CallerIds, body \in RaceBodies : UpdateBegin(id, body)
    \/ \E p \in pending, gone \in {NotFound, ServerError} : UpdateCommit(p, gone)
    \/ \E id \in CallerIds : DeleteBegin(id)
    \/ \E p \in pending, gone \in {NoContent, NotFound} : DeleteCommit(p, gone)

SpecRace == Init /\ [][NextRace]_vars

\* Requests while time passes, between requests and within a create.
NextTime ==
    \/ Tick
    \/ \E body \in StorageBodies, tu \in 0 .. MaxClock : CreateTimed(body, tu)
    \/ \E id \in CallerIds : GetOne(id, FALSE)
    \/ \E id \in CallerIds, body \in TimeBodies : Update(id, body, FALSE)
    \/ \E id \in CallerIds : Delete(id, FALSE)

SpecTime == Init /\ [][NextTime]_vars

\* Requests whose bodies carry different subsets of the writable fields.
NextFrame ==
    \/ \E body \in FrameCreates : Create(body, FALSE)
    \/ \E id \in CallerIds, body \in FrameUpdates : Update(id, body, FALSE)
    \/ \E id \in CallerIds : Delete(id, FALSE)

SpecFrame == Init /\ [][NextFrame]_vars

\* Lists, with and without the completed filter, between the requests
\* that change the collection.
NextList ==
    \/ \E body \in StorageBodies : Create(body, FALSE)
    \/ GetAll(FALSE)
    \/ \E c \in BOOLEAN : GetAllWhere(c)
    \/ \E id \in CallerIds, body \in RaceBodies : Update(id, body, FALSE)
    \/ \E id \in CallerIds : Delete(id, FALSE)

SpecList == Init /\ [][NextList]_vars

\* Requests of every kind from callers with and without credentials.
NextAccess ==
    \/ \E c \in Callers, body \in StorageBodies : CreateAs(c, body)
    \/ \E c \in Callers : GetAllAs(c)
    \/ \E c \in Callers, id \in CallerIds : GetOneAs(c, id)
    \/ \E c \in Callers, id \in CallerIds, body \in RaceBodies : UpdateAs(c, id, body)
    \/ \E c \in Callers, id \in CallerIds : DeleteAs(c, id)

SpecAccess == Init /\ [][NextAccess]_vars

\* The database before the first migration.
InitMigrate ==
    /\ tasks = << >>
    /\ idCounter = 0
    /\ clock = 0
    /\ last = [op |-> "none", id |-> EmptyId, req |-> NoBody, status |-> Ok,
               threw |-> FALSE, rows |-> << >>, existed |-> FALSE, wasDeleted |-> FALSE]
    /\ pending = {}
    /\ deleted = {}
    /\ issued = << >>
    /\ schema = EmptySchema
    /\ proc = NoProcess
    /\ web = NoExchange
    /\ page = PageUnmounted
    /\ caller = "nobody"

\* The server's host, with or without the client build next to it.
InitServer ==
    /\ tasks = << >>
    /\ idCounter = 0
    /\ clock = 0
    /\ last = [op |-> "none", id |-> EmptyId, req |-> NoBody, status |-> Ok,
               threw |-> FALSE, rows |-> << >>, existed |-> FALSE, wasDeleted |-> FALSE]
    /\ pending = {}
    /\ deleted = {}
    /\ issued = << >>
    /\ schema = MigratedSchema
    /\ proc = NoProcess
    /\ \E exists \in BOOLEAN : web = [NoExchange EXCEPT !.clientDistExists = exists]
    /\ page = PageUnmounted
    /\ caller = "nobody"

\* The start of the server and the GET requests to it.
NextServer ==
    \/ ServerStart
    \/ \E dbFails \in BOOLEAN : TestConnect(dbFails)
    \/ TestRelease
    \/ StartListen
    \/ \E path \in RequestPaths : HttpGet(path)

SpecServer == InitServer /\ [][NextServer]_vars

\* One tasks page as the only client: its query, its three mutations and
\* the responses, with a storage that may fail.
NextPage ==
    \/ PageFetch(FALSE)
    \/ PageFetchEnd
    \/ \E dbFails \in BOOLEAN : PageSubmit(<<"a">>, << >>, dbFails)
    \/ \E i \in 1 .. MaxCreates, dbFails \in BOOLEAN : PageToggle(i, dbFails)
    \/ \E i \in 1 .. MaxCreates, dbFails \in BOOLEAN : PageDelete(i, dbFails)
    \/ \E m \in BagToSet(page.inflight) : PageSettle(m)

SpecPage == Init /\ [][NextPage]_vars

\* The form of one tasks page, submitted with whatever the user typed.
NextForm ==
    \/ \E dbFails \in BOOLEAN : PageFetch(dbFails)
    \/ PageFetchEnd
    \/ \E title \in Titles, description \in Descriptions :
          PageSubmit(title, description, FALSE)
    \/ \E m \in BagToSet(page.inflight) : PageSettle(m)

SpecForm == Init /\ [][NextForm]_vars

\* A step of a migrate script that has been started.
MigrateStep ==
    \/ \E dbFails \in BOOLEAN : MigrateExecute(dbFails)
    \/ MigratePoolEnd
    \/ MigrateExit

\* Runs of the migrate script, between requests to the application once
\* the table is there.
NextMigrate ==
    \/ MigrateStart
    \/ \E dbFails \in BOOLEAN : MigrateExecute(dbFails)
    \/ MigratePoolEnd
    \/ MigrateExit
    \/ \E body \in StorageBodies : "tasks" \in schema.tables /\ Create(body, FALSE)
    \/ \E id \in CallerIds, body \in RaceBodies :
          "tasks" \in schema.tables /\ Update(id, body, FALSE)
    \/ \E id \in CallerIds : "tasks" \in schema.tables /\ Delete(id, FALSE)

\* A script that has been started runs on: the database answers each call,
\* with success or with an error, and the runtime runs the next statement.
SpecMigrate == InitMigrate /\ [][NextMigrate]_vars /\ WF_vars(MigrateStep)

\* ------------------------------------------------------------ properties
\* A title that the contract rejects: missing, or empty once trimmed.
TitleRejected(body) == body.title = {} \/ trim(The(body.title)) = << >>

\* The error names of the repository contract, by the response that the
\* REST API gives for them.
ErrorOf(status) ==
    CASE status = "400 Bad Request" -> "ValidationError"
      [] status = NotFound          -> "NotFoundError"
      [] status = ServerError       -> "StorageError"
      [] OTHER                      -> "none"

\* The latest request failed with the named error.
Failed(error) == last.threw /\ ErrorOf(last.status) = error

\* C1: a create whose title is missing, empty or only whitespace always
\* fails with ValidationError and returns no persisted Task.
C1_EmptyTitleCreateFails ==
    (last.op = "create" /\ TitleRejected(last.req))
        => (Failed("ValidationError") /\ last.rows = << >>)

\* C2: no persisted Task has a title that is empty after trimming.
C2_NoEmptyTitlePersisted ==
    \A i \in DOMAIN tasks : trim(tasks[i].title) # << >>

\* C3: an update of an existing id whose body carries a title that is empty
\* after trimming fails with ValidationError and the stored record keeps its
\* previous title.
C3_UpdateRevalidatesTitle ==
    [][\A id \in CallerIds, body \in TitleBodies :
          (Update(id, body, FALSE) /\ HasId(tasks, id)
             /\ body.title # {} /\ trim(The(body.title)) = << >>)
          => (/\ last'.threw
              /\ ErrorOf(last'.status) = "ValidationError"
              /\ HasId(tasks', id)
              /\ RowOf(tasks', id).title = RowOf(tasks, id).title)]_vars

\* C4: after a create with a valid title has returned, get of the returned
\* id yields a record with exactly that title and, when completed was not
\* supplied, completed = false.
C4_CreateThenGet ==
    (last.op = "create" /\ ~last.threw /\ ~TitleRejected(last.req))
        => LET got == ServerGetOne(tasks, last.id, FALSE)
           IN  /\ got.status = Ok
               /\ got.rows[1].id = last.id
               /\ got.rows[1].title = The(last.req.title)
               /\ (last.req.completed = {} => got.rows[1].completed = FALSE)

C4_Witness ==
    /\ last.op = "create"
    /\ ~last.threw
    /\ last.req.title = {<<" ", "a">>}
    /\ last.req.completed = {}
    /\ Len(tasks) = 2

\* C5: a create, update or delete that fails leaves the whole collection
\* exactly as it was before the call.
C5_FailedOperationChangesNothing ==
    [][last'.threw => tasks' = tasks]_vars

C5_Witness ==
    /\ last.op = "create"
    /\ Failed("StorageError")
    /\ Len(tasks) = 1

\* C6: once delete(id) has succeeded, every later get(id) and every later
\* delete(id) fails with NotFoundError.
C6_DeletedStaysNotFound ==
    (last.op \in {"get", "delete"} /\ last.wasDeleted) => Failed("NotFoundError")

C6_Witness ==
    /\ last.op = "delete"
    /\ last.wasDeleted
    /\ last.id \in deleted
    /\ tasks # << >>

\* C7: an id whose delete has succeeded is never again in the collection,
\* whatever creates and updates follow.
C7_DeletionIsPermanent ==
    \A id \in deleted : ~HasId(tasks, id)

C7_Witness ==
    /\ deleted # {}
    /\ last.op = "create"
    /\ ~last.threw
    /\ HasId(tasks, last.id)

\* C8: get, update and delete of an id that is not in the collection fail
\* with NotFoundError and leave no record with that id.
C8_AbsentIdNotFound ==
    (last.op \in {"get", "update", "delete"} /\ ~last.existed)
        => (Failed("NotFoundError") /\ ~HasId(tasks, last.id))

C8_Witness ==
    /\ last.op = "update"
    /\ ~last.existed
    /\ last.id = NeverCreatedId
    /\ tasks # << >>

\* C9: every record carries an id from its creation on, and no step changes
\* the id of a record; an update whose body names another id keeps it.
C9_IdNeverChanges ==
    [][/\ \A j \in DOMAIN tasks' : tasks'[j].id # EmptyId
       /\ \A i \in DOMAIN tasks, j \in DOMAIN tasks' :
             tasks[i].sn = tasks'[j].sn => tasks[i].id = tasks'[j].id]_vars

C9_Witness ==
    /\ last.op = "update"
    /\ ~last.threw
    /\ last.req.id # {}
    /\ last.req.id # {last.id}

\* C10: no two records of the collection share an id, and no two creates
\* return the same id, also when creates overlap.
C10_IdsUnique ==
    /\ \A i, j \in DOMAIN tasks : tasks[i].id = tasks[j].id => i = j
    /\ \A i, j \in DOMAIN issued : issued[i] = issued[j] => i = j

\* The create that began second has returned while the one that began first
\* is still in flight.
C10_Witness ==
    /\ Cardinality(pending) = 1
    /\ issued = <<createId(2)>>
    /\ HasId(tasks, createId(2))

C12_CreatedAtEqualsUpdatedAt ==
    (last.op = "create" /\ ~last.threw)
        => /\ last.rows[1].createdAt = last.rows[1].updatedAt
           /\ RowOf(tasks, last.id).createdAt = RowOf(tasks, last.id).updatedAt

\* C13: every persisted Task has createdAt <= updatedAt.
C13_CreatedAtBeforeUpdatedAt ==
    \A i \in DOMAIN tasks : tasks[i].createdAt <= tasks[i].updatedAt

\* An updated record whose updatedAt is later than its createdAt, next to
\* a record whose two stamps are equal.
C13_Witness ==
    /\ last.op = "update"
    /\ ~last.threw
    /\ last.rows[1].createdAt < last.rows[1].updatedAt
    /\ \E i \in DOMAIN tasks : tasks[i].createdAt = tasks[i].updatedAt

\* C14: the updatedAt of a Task never decreases: whatever a step does, a
\* record that is still persisted has an updatedAt at least as large as
\* before.
C14_UpdatedAtNeverDecreases ==
    [][\A i \in DOMAIN tasks, j \in DOMAIN tasks' :
          tasks[i].sn = tasks'[j].sn
              => tasks'[j].updatedAt >= tasks[i].updatedAt]_vars

\* An update that sets completed has succeeded at the latest time on a
\* record created earlier: its updatedAt has grown to that time.
C14_Witness ==
    /\ last.op = "update"
    /\ ~last.threw
    /\ last.req.completed # {}
    /\ last.rows[1].updatedAt = MaxClock
    /\ last.rows[1].createdAt < last.rows[1].updatedAt
    /\ clock = MaxClock

\* C15: update(id, {completed: true}) followed by get(id) yields completed
\* = true, and an updatedAt strictly greater than the one before the update
\* when the clock has advanced since the write before.
C15_ToggleThenGet ==
    [][\A id \in CallerIds :
          (HasId(tasks, id) /\ Update(id, [NoBody EXCEPT !.completed = {TRUE}], FALSE))
              => LET before == RowOf(tasks, id)
                     get    == ServerGetOne(tasks', id, FALSE)
                 IN  /\ get.status = Ok
                     /\ get.rows[1].completed = TRUE
                     /\ (before.updatedAt < clock
                            => get.rows[1].updatedAt > before.updatedAt)]_vars

\* An update to completed = true of a record that was not completed and
\* was created at an earlier time has succeeded.
C15_Witness ==
    /\ last.op = "update"
    /\ ~last.threw
    /\ last.req.completed = {TRUE}
    /\ RowOf(tasks, last.id).completed
    /\ RowOf(tasks, last.id).createdAt < RowOf(tasks, last.id).updatedAt
    /\ RowOf(tasks, last.id).updatedAt = clock

\* C16: createdAt is set at creation and no later step changes it, an
\* update whose body supplies a createdAt included.
C16_CreatedAtNeverChanges ==
    [][\A i \in DOMAIN tasks, j \in DOMAIN tasks' :
          tasks[i].sn = tasks'[j].sn
              => tasks'[j].createdAt = tasks[i].createdAt]_vars

\* An update whose body supplies a createdAt has succeeded on a record that
\* was created at another time, and the record keeps its createdAt.
C16_Witness ==
    /\ last.op = "update"
    /\ ~last.threw
    /\ last.req.createdAt # {}
    /\ RowOf(tasks, last.id).createdAt # The(last.req.createdAt)
    /\ last.rows[1].createdAt = RowOf(tasks, last.id).createdAt

\* C17: an update of an existing record with a subset of title,
\* description and completed sets the fields of the subset and changes no
\* other field of the record but updatedAt, and changes no other record.
C17_UpdateChangesOnlyItsFields ==
    [][\A id \in CallerIds, body \in FrameUpdates :
          (HasId(tasks, id) /\ Update(id, body, FALSE))
              => LET before == RowOf(tasks, id)
                     after  == RowOf(tasks', id)
                 IN  /\ HasId(tasks', id)
                     /\ after.title = IF body.title = {} THEN before.title
                                      ELSE The(body.title)
                     /\ after.description = IF body.description = {} THEN before.description
                                            ELSE The(body.description)
                     /\ after.completed = IF body.completed = {} THEN before.completed
                                          ELSE The(body.completed)
                     /\ after.id = before.id
                     /\ after.createdAt = before.createdAt
                     /\ DOMAIN tasks' = DOMAIN tasks
                     /\ \A i \in DOMAIN tasks :
                            tasks[i].id # id => tasks'[i] = tasks[i]]_vars

\* update(id, {completed: true}) has succeeded on a record that has a
\* description, which it kept with its title, next to another record that
\* is not completed.
C17_Witness ==
    /\ last.op = "update"
    /\ ~last.threw
    /\ last.req = [NoBody EXCEPT !.completed = {TRUE}]
    /\ RowOf(tasks, last.id).description = {<<"d">>}
    /\ RowOf(tasks, last.id).title = <<"a">>
    /\ \E i \in DOMAIN tasks : tasks[i].id # last.id /\ ~tasks[i].completed

\* C18: an update that carries completed, true or false, on an existing
\* record is never rejected, whatever the value of the flag so far, and
\* sets the flag to the value it carries.
C18_CompletedTogglesFreely ==
    [][\A id \in CallerIds, body \in FrameUpdates :
          (HasId(tasks, id) /\ body.completed # {} /\ Update(id, body, FALSE))
              => /\ ~last'.threw
                 /\ HasId(tasks', id)
                 /\ RowOf(tasks', id).completed = The(body.completed)]_vars

\* An update has set completed to false on a record while another record
\* is completed.
C18_Witness ==
    /\ last.op = "update"
    /\ ~last.threw
    /\ last.req.completed = {FALSE}
    /\ ~RowOf(tasks, last.id).completed
    /\ \E i \in DOMAIN tasks : tasks[i].completed

\* C19: a list returns exactly the records in the collection, each once,
\* restricted to those matching the completed filter when one is given, in
\* the order of their insertion.
C19_ListInInsertionOrder ==
    (last.op = "list" /\ ~last.threw)
        => last.rows = SelectSeq(tasks,
                                 LAMBDA row : \/ last.req.completed = {}
                                              \/ row.completed \in last.req.completed)

\* C20: the errors reach the caller of the operation unchanged: a response
\* that carries an error is never taken for a success, and requests that
\* fail with different errors throw different errors at their callers.
C20_ErrorsPropagateUnchanged ==
    [][/\ ErrorOf(last'.status) # "none" => Thrown(last') # "none"
       /\ (last.threw /\ last'.threw /\ ErrorOf(last.status) # ErrorOf(last'.status))
             => Thrown(last) # Thrown(last')]_vars

\* C26: each function of the client api throws exactly when the response
\* is not ok, and a call that threw returned no value; a call that did not
\* throw returned the task of the response for getOne, create and update,
\* the list for getAll, and nothing for delete.
C26_ApiThrowsUnlessOk ==
    last.op # "none"
        => /\ last.threw <=> ~ResponseOk(last.status)
           /\ last.threw => last.rows = << >>
           /\ (~last.threw /\ last.op \in {"get", "create", "update"})
                 => (Len(last.rows) = 1 /\ last.rows[1].id = last.id)
           /\ (~last.threw /\ last.op = "list")
                 => \A i \in DOMAIN last.rows : last.rows[i].id \in GeneratedIds
           /\ (~last.threw /\ last.op = "delete") => last.rows = << >>

\* A delete of a task that was in the table met a storage failure: the
\* function threw and the caller holds no value.
C26_Witness ==
    /\ last.op = "delete"
    /\ last.existed
    /\ last.status = ServerError
    /\ last.threw
    /\ last.rows = << >>

C21_MigrationIdempotent ==
    [][/\ MigrateExecute(FALSE)
            => (schema' = MigratedSchema /\ proc'.result = {TRUE})
       /\ \A dbFails \in BOOLEAN :
            MigrateExecute(dbFails)
                => /\ tasks' = tasks
                   /\ schema = MigratedSchema => schema' = schema]_vars

\* The migration has run twice with success, the second time on a
\* database that holds a row.
C21_Witness ==
    /\ proc.script = "migrate"
    /\ proc.runs = 2
    /\ proc.exit = {0}
    /\ tasks # << >>
    /\ schema = MigratedSchema

\* C27: the migrate script always ends; when it has exited, the exit code
\* is 0 if the SQL succeeded and 1 if it failed, and the pool has been
\* ended exactly once.
C27_MigrateEndsPoolAndExits ==
    /\ [](proc.script = "migrate" /\ proc.pc = "exited"
            => /\ proc.ends = 1
               /\ proc.exit = {IF proc.result = {TRUE} THEN 0 ELSE 1})
    /\ [](proc.script = "migrate" /\ proc.pc \in {"exit", "exited"} => proc.ends = 1)
    /\ (proc.script = "migrate" /\ proc.pc # "exited")
           ~> (proc.script = "migrate" /\ proc.pc = "exited")

\* A run of the migrate script whose SQL failed has exited with code 1,
\* the pool ended.
C27_Witness ==
    /\ proc.script = "migrate"
    /\ proc.pc = "exited"
    /\ proc.result = {FALSE}
    /\ proc.exit = {1}
    /\ proc.ends = 1

\* C22: the server listens only after a connection test that succeeded,
\* and when the connection failed the process has logged 'Failed to start
\* server' and exited with code 1 once startServer has gone on.
C22_ListensOnlyAfterConnection ==
    /\ (proc.script = "server" /\ proc.listening) => proc.result = {TRUE}
    /\ (proc.script = "server" /\ proc.result = {FALSE}
           /\ proc.pc \notin {"connect", "release", "tested"})
          => /\ "Failed to start server" \in proc.logs
             /\ proc.exit = {1}

\* C23: with the client build, a GET that no earlier handler answers gets
\* 404 with {error: 'Not found'} when its path starts with /api and
\* index.html otherwise; index.html is never sent for a path that starts
\* with /api.
C23_SpaFallbackSparesApi ==
    (proc.script = "server" /\ web.clientDistExists /\ web.sent # "none")
        => /\ (startsWith(web.path, Path_api) => web.sent # "index.html")
           /\ (/\ web.path \notin {Path_api_health, Path_api_hello}
               /\ ~ApiHandles(web.path)
               /\ ~StaticHandles(web.path))
                => IF startsWith(web.path, Path_api)
                   THEN web.status = NotFound /\ web.sent = "{error: 'Not found'}"
                   ELSE web.status = Ok /\ web.sent = "index.html"

\* With the client build, a GET of /api/x has been answered 404 with the
\* JSON error.
C23_Witness ==
    /\ web.clientDistExists
    /\ web.path = <<"/", "a", "p", "i", "/", "x">>
    /\ web.status = NotFound
    /\ web.sent = "{error: 'Not found'}"

\* C28: testConnection never throws and leaves no client checked out: once
\* it has returned, the result is true after exactly one client was
\* acquired and released, or false after none was acquired.
C28_TestConnectionReleases ==
    (proc.script = "server" /\ proc.pc \in {"tested", "listening", "exited"})
        => /\ proc.result \in {{TRUE}, {FALSE}}
           /\ proc.held = 0
           /\ proc.acquired = IF proc.result = {TRUE} THEN 1 ELSE 0
           /\ "Failed to start server" \notin proc.logs

\* testConnection has returned true with the client given back, in the
\* second server process that was started.
C28_Witness ==
    /\ proc.script = "server"
    /\ proc.pc = "tested"
    /\ proc.result = {TRUE}
    /\ proc.acquired = 1
    /\ proc.held = 0
    /\ proc.runs = 2

\* The same rows, whatever their order.
SameRows(rows, ts) ==
    /\ Len(rows) = Len(ts)
    /\ {rows[i] : i \in DOMAIN rows} = {ts[i] : i \in DOMAIN ts}

\* C24: a mutation whose response is ok invalidates the ['tasks'] query
\* and one whose response is not ok does not; and when no mutation is on
\* its way and the query is not invalid, the list that the query holds is
\* the collection of the server.
C24_InvalidationKeepsListCurrent ==
    [][/\ (page'.inflight = EmptyBag /\ ~page'.invalidated /\ page'.data # {})
            => SameRows(The(page'.data), tasks')
       /\ \A m \in BagToSet(page.inflight) :
            PageSettle(m)
                => IF m.ok
                   THEN page'.invalidated /\ page'.fetching = {}
                   ELSE /\ page'.invalidated = page.invalidated
                        /\ page'.fetching = page.fetching]_vars

\* After a delete that succeeded and the refetch that followed, the list
\* of the page is the collection, which holds a task.
C24_Witness ==
    /\ page.inflight = EmptyBag
    /\ ~page.invalidated
    /\ page.data # {}
    /\ deleted # {}
    /\ tasks # << >>
    /\ SameRows(The(page.data), tasks)

\* C25: the page issues no create request whose title is empty once
\* trimmed; a submit that issues one sends the title as typed, and leaves
\* the description out exactly when the field is empty.
C25_SubmitGuardsTitle ==
    [][/\ \A m \in BagToSet(page'.inflight) :
            m.kind = "create" => trim(The(m.req.title)) # << >>
       /\ \A title \in Titles, description \in Descriptions :
            PageSubmit(title, description, FALSE)
                => /\ trim(title) # << >>
                   /\ \E m \in BagToSet(page'.inflight) :
                         /\ CopiesIn(m, page'.inflight) = CopiesIn(m, page.inflight) + 1
                         /\ m.kind = "create"
                         /\ m.req.title = {title}
                         /\ m.req.description =
                               IF description = << >> THEN {} ELSE {{description}}]_vars

\* A create is on its way with a title typed with a leading blank and no
\* description, and the collection holds the task with that title.
C25_Witness ==
    /\ \E m \in BagToSet(page.inflight) :
          /\ m.kind = "create"
          /\ m.req.title = {<<" ", "a">>}
          /\ m.req.description = {}
    /\ \E i \in DOMAIN tasks : tasks[i].title = <<" ", "a">>

\* C29: at most one create request and at most one toggle request of the
\* page are on their way at any time.
C29_OneCreateOneToggleInFlight ==
    /\ InFlight(page, "create") <= 1
    /\ InFlight(page, "update") <= 1

\* A create and a toggle are on their way together, and both buttons are
\* disabled.
C29_Witness ==
    /\ InFlight(page, "create") = 1
    /\ InFlight(page, "update") = 1
    /\ SubmitDisabled(page)
    /\ ToggleDisabled(page)

====
